---- MODULE Spec2Model ----
(***************************************************************************)
(* A model of src/main.py: _fetch_bytes, the sitemap discovery and crawl   *)
(* engine, the batched campaign submission, the /indexdomains orchestrator *)
(* and the handlers of /indexdomains, /indexweb and of the text messages.  *)
(*                                                                         *)
(* One action is one resumption of a coroutine: the code that runs from    *)
(* the completion of one awaited HTTP request to the next await (or to the *)
(* return).  The synchronous code between two awaits is written as         *)
(* operators over a record holding the coroutine's local variables.        *)
(*                                                                         *)
(* A URL is a tuple <<scheme, host, path>>, a host a tuple of tokens.      *)
(***************************************************************************)
EXTENDS Integers, Sequences, FiniteSets, TLC

VARIABLES
    server,            \* the web: URL -> response of a GET (fixed during a run)
    connector_closed,  \* the TCPConnector made at line 533 has been closed
    sem,               \* free permits of asyncio.Semaphore(3), line 531
    domains,           \* the domain tokens of the /indexdomains command
    pc,                \* task -> where the coroutine is suspended
    disc,              \* task -> locals of _discover_sitemap_entry_points
    crawl,             \* task -> locals of _collect_urls_from_sitemaps
    sub,               \* task -> locals of call_1hping_in_batches
    report,            \* task -> the report dict of _process_domain
    gets,              \* task -> the GETs issued so far, with what each returned
    posts,             \* task -> the campaign POSTs issued so far, with the outcome
    results,           \* what asyncio.gather gave indexdomains (line 583)
    update,            \* the Telegram update being handled: handler and tokens
    days,              \* the day count of the handler
    user_data,         \* context.user_data: awaiting_days and urls
    replies            \* the messages the handlers sent, in order

vars == <<server, connector_closed, sem, domains, pc, disc, crawl, sub,
          report, gets, posts, results, update, days, user_data, replies>>

----------------------------------------------------------------------------
(* Sequences *)

Range(s) == {s[i] : i \in 1..Len(s)}

NoDup(s) == \A i, j \in 1..Len(s) : i # j => s[i] # s[j]

RECURSIVE Concat(_)
Concat(ss) == IF ss = <<>> THEN <<>> ELSE Head(ss) \o Concat(Tail(ss))

\* list(dict.fromkeys(s)): the first occurrences, in order.
RECURSIVE DictFromKeys(_)
DictFromKeys(s) ==
    IF s = <<>> THEN <<>>
    ELSE LET init == DictFromKeys(SubSeq(s, 1, Len(s) - 1))
             last == s[Len(s)]
         IN  IF last \in Range(init) THEN init ELSE Append(init, last)

----------------------------------------------------------------------------
(* URLs and documents *)

Url(scheme, h, path) == <<scheme, h, path>>

\* What _fetch_bytes hands back: None ("none"), zero bytes ("empty"), bytes
\* that are not XML ("bad"), or an XML document ("ok") whose elements named
\* sitemap or url are listed in document order with their loc text
\* (<<>> when the loc element is missing or blank).
NoData == [xml |-> "none", entries |-> <<>>]
EmptyBytes == [xml |-> "empty", entries |-> <<>>]
BadXml == [xml |-> "bad", entries |-> <<>>]
Doc(entries) == [xml |-> "ok", entries |-> entries]
SitemapEl(loc) == [tag |-> "sitemap", loc |-> loc]
UrlEl(loc) == [tag |-> "url", loc |-> loc]
BlankLoc == <<>>

\* Bytes that are the gzip stream of other bytes.
Gzip(body) == [xml |-> "gzip", entries |-> <<body>>]

\* A response: a transport failure or timeout (err), or a status, a body and
\* whether the Content-Type header mentions gzip.
TransportError == [err |-> TRUE, status |-> 0, body |-> NoData, ct_gzip |-> FALSE]
HttpCt(status, body, ct_gzip) ==
    [err |-> FALSE, status |-> status, body |-> body, ct_gzip |-> ct_gzip]
Http(status, body) == HttpCt(status, body, FALSE)

\* `if not data` (lines 238, 264): None and b"" are both falsy.
Falsy(data) == data.xml \in {"none", "empty"}

\* url.lower().endswith(".gz") (line 179): the path names that end so.
GzNames == {"/sitemap.xml.gz", "/SITEMAP.XML.GZ"}
EndsWithGz(url) == url[3][1] \in GzNames

\* Lines 180-183: gzip.decompress, the content as it is when that raises.
GzipDecompress(content) ==
    IF content.xml = "gzip" THEN content.entries[1] ELSE content

\* FetchBytes taking every 2xx status for a success.
FetchBytesAny2xx(closed, url, resp) ==
    IF closed \/ resp.err THEN NoData
    ELSE IF resp.status < 200 \/ resp.status > 299 THEN NoData
    ELSE IF EndsWithGz(url) \/ resp.ct_gzip THEN GzipDecompress(resp.body)
    ELSE resp.body

\* _fetch_bytes: the body of a 200 answer, decompressed when the URL or the
\* Content-Type says gzip; None for any other status and for any exception.
\* A request on a session whose connector is closed raises inside the try
\* block, so it is None too.
FetchBytes(closed, url, resp) ==
    IF closed \/ resp.err THEN NoData
    ELSE IF resp.status # 200 THEN NoData
    ELSE IF EndsWithGz(url) \/ resp.ct_gzip THEN GzipDecompress(resp.body)
    ELSE resp.body

Locs(entries, tag) ==
    LET hit == SelectSeq(entries, LAMBDA e : e.tag = tag /\ e.loc # BlankLoc)
    IN  [i \in 1..Len(hit) |-> hit[i].loc]

\* _parse_sitemap_xml: (sitemap_links, page_urls); both empty when the bytes
\* do not parse.
ParseSitemapXml(data) ==
    IF data.xml # "ok" THEN <<<<>>, <<>>>>
    ELSE <<Locs(data.entries, "sitemap"), Locs(data.entries, "url")>>

----------------------------------------------------------------------------
(* _collect_urls_from_sitemaps *)

\* AddPages without the test of line 244.
AddPagesUnchecked(c, page_urls) ==
    [c EXCEPT !.seen_urls = @ \cup {page_urls[k] : k \in 1..Len(page_urls)},
              !.ordered_urls = @ \o page_urls]

\* Lines 243-246: append the page URLs not seen before.
RECURSIVE AddPages(_, _)
AddPages(c, page_urls) ==
    IF page_urls = <<>> THEN c
    ELSE LET u == Head(page_urls)
         IN  IF u \notin c.seen_urls
             THEN AddPages([c EXCEPT !.seen_urls = @ \cup {u},
                                     !.ordered_urls = Append(@, u)],
                           Tail(page_urls))
             ELSE AddPages(c, Tail(page_urls))

\* AddChildren putting the children at the end of the level being run.
AddChildrenSameLevel(c, child_sitemaps) ==
    [c EXCEPT !.queue =
        @ \o SelectSeq(child_sitemaps, LAMBDA k : k \notin c.seen_sitemaps)]

\* AddChildren without the test of line 249.
AddChildrenUnfiltered(c, child_sitemaps) ==
    [c EXCEPT !.next_queue = @ \o child_sitemaps]

\* Lines 248-250: queue the children not visited so far.
AddChildren(c, child_sitemaps) ==
    [c EXCEPT !.next_queue =
        @ \o SelectSeq(child_sitemaps, LAMBDA k : k \notin c.seen_sitemaps)]

\* LoopCond stopping one level early.
LoopCondEarly(c) == c.queue # <<>> /\ c.depth + 1 < c.limit_depth

\* LoopCond without the depth bound.
LoopCondUnbounded(c) == c.queue # <<>>

\* The loop condition of line 230.
LoopCond(c) == c.queue # <<>> /\ c.depth < c.limit_depth

\* CrawlRun without the test of line 233.
RECURSIVE CrawlRunNoSkip(_)
CrawlRunNoSkip(c) ==
    IF c.at = "while"
    THEN IF LoopCond(c)
         THEN CrawlRunNoSkip([c EXCEPT !.next_queue = <<>>, !.i = 1, !.at = "for"])
         ELSE [c EXCEPT !.at = "return"]
    ELSE IF c.at = "for"
    THEN IF c.i > Len(c.queue)
         THEN CrawlRunNoSkip([c EXCEPT !.queue = c.next_queue,
                                       !.depth = c.depth + 1, !.at = "while"])
         ELSE [c EXCEPT !.seen_sitemaps = @ \cup {c.queue[c.i]},
                        !.at = "fetch"]
    ELSE c

\* The code from the loop head (line 230) or the for statement (line 232) up
\* to the next await (line 237) or the return (line 255).
RECURSIVE CrawlRun(_)
CrawlRun(c) ==
    IF c.at = "while"
    THEN IF LoopCond(c)
         THEN CrawlRun([c EXCEPT !.next_queue = <<>>, !.i = 1, !.at = "for"])
         ELSE [c EXCEPT !.at = "return"]
    ELSE IF c.at = "for"
    THEN IF c.i > Len(c.queue)
         THEN CrawlRun([c EXCEPT !.queue = c.next_queue,
                                 !.depth = c.depth + 1, !.at = "while"])
         ELSE IF c.queue[c.i] \in c.seen_sitemaps
         THEN CrawlRun([c EXCEPT !.i = c.i + 1])
         ELSE [c EXCEPT !.seen_sitemaps = @ \cup {c.queue[c.i]},
                        !.at = "fetch"]
    ELSE c

\* Lines 223-228 and on to the first await.
CrawlStart(entry_urls, limit_depth) ==
    CrawlRun([entry_urls |-> entry_urls, limit_depth |-> limit_depth,
              seen_sitemaps |-> {}, seen_urls |-> {}, ordered_urls |-> <<>>,
              queue |-> entry_urls, next_queue |-> <<>>, depth |-> 0,
              i |-> 1, at |-> "while"])

\* CrawlResume giving the crawl up at a fetch without data.
CrawlResumeAbort(c, data) ==
    IF Falsy(data)
    THEN [c EXCEPT !.at = "return"]
    ELSE LET parsed == ParseSitemapXml(data)
             c1 == AddChildren(AddPages(c, parsed[2]), parsed[1])
         IN  CrawlRun([c1 EXCEPT !.i = c.i + 1, !.at = "for"])

\* Lines 238-250 with the bytes of the awaited fetch, and on to the next await.
CrawlResume(c, data) ==
    IF Falsy(data)
    THEN CrawlRun([c EXCEPT !.i = c.i + 1, !.at = "for"])
    ELSE LET parsed == ParseSitemapXml(data)
             c1 == AddChildren(AddPages(c, parsed[2]), parsed[1])
         IN  CrawlRun([c1 EXCEPT !.i = c.i + 1, !.at = "for"])

\* A call that has not been made.
NoCrawl == [at |-> "none"]

----------------------------------------------------------------------------
(* _norm_domain and _candidate_sitemap_urls *)

\* A raw domain is a sequence of tokens: a scheme prefix, "www.", a host
\* label in lower or upper case, ":", a port digit, "/", "[", "]" or " ".
SchemeTokens == {"http://", "https://", "HTTP://"}
Lower(tok) == CASE tok = "G" -> "g" [] tok = "I" -> "i" [] tok = "WWW." -> "www."
                [] OTHER -> tok

\* str.strip(): the leading and trailing blanks removed.
RECURSIVE Strip(_)
Strip(raw) ==
    IF raw = <<>> THEN raw
    ELSE IF Head(raw) = " " THEN Strip(Tail(raw))
    ELSE IF raw[Len(raw)] = " " THEN Strip(SubSeq(raw, 1, Len(raw) - 1))
    ELSE raw

\* The tokens before the first occurrence of tok (all of them when absent).
RECURSIVE Before(_, _)
Before(toks, tok) ==
    IF toks = <<>> \/ Head(toks) = tok THEN <<>>
    ELSE <<Head(toks)>> \o Before(Tail(toks), tok)

\* urlparse(raw).netloc for a raw string that starts with a scheme: what
\* follows the scheme up to the first "/".  A netloc with "[" and no "]", or
\* "]" and no "[", makes urlparse raise ValueError.
NetlocOf(raw) == Before(Tail(raw), "/")
NetlocRaises(netloc) == ("[" \in Range(netloc)) # ("]" \in Range(netloc))

\* _norm_domain: the host, <<>> for the empty string, or the ValueError of
\* urlparse, which the function does not catch.
NormDomain(raw) ==
    LET stripped == Strip(raw)
        withScheme == IF Head(stripped) \in SchemeTokens THEN stripped
                      ELSE <<"http://">> \o stripped
        netloc == NetlocOf(withScheme)
        lowered == [k \in 1..Len(Strip(netloc)) |-> Lower(Strip(netloc)[k])]
    IN  IF stripped = <<>> THEN [raised |-> FALSE, host |-> <<>>]
        ELSE IF NetlocRaises(netloc) THEN [raised |-> TRUE, host |-> <<>>]
        ELSE [raised |-> FALSE, host |-> Before(lowered, ":")]

SitemapIndexXml == <<"/sitemap_index.xml", 0>>
SitemapXml == <<"/sitemap.xml", 0>>

\* Lines 164-169 for one host.
CandidatesOf(h) ==
    <<Url("https", h, SitemapIndexXml), Url("https", h, SitemapXml),
      Url("http", h, SitemapIndexXml), Url("http", h, SitemapXml)>>

\* _candidate_sitemap_urls
CandidateSitemapUrls(h) ==
    LET hosts == IF Head(h) = "www." THEN <<h>> ELSE <<h, <<"www.">> \o h>>
    IN  Concat([k \in 1..Len(hosts) |-> CandidatesOf(hosts[k])])

----------------------------------------------------------------------------
(* _discover_sitemap_entry_points *)

\* Lines 259-260 and on to the first await (line 263).
DiscoverStart(h) ==
    [host |-> h, candidates |-> CandidateSitemapUrls(h), i |-> 1,
     entry_points |-> <<>>, at |-> "fetch"]

\* `continue`: the next candidate, or the end of the list.
NextCandidate(d) ==
    IF d.i = Len(d.candidates) THEN [d EXCEPT !.at = "return"]
    ELSE [d EXCEPT !.i = d.i + 1]

\* DiscoverResume going on to the next candidate after a viable one.
DiscoverResumeNoBreak(d, data) ==
    LET url == d.candidates[d.i]
        parsed == ParseSitemapXml(data)
    IN  IF Falsy(data) THEN NextCandidate(d)
        ELSE IF parsed[1] # <<>>
        THEN NextCandidate([d EXCEPT !.entry_points = @ \o <<url>> \o parsed[1]])
        ELSE IF parsed[2] # <<>>
        THEN NextCandidate([d EXCEPT !.entry_points = @ \o <<url>>])
        ELSE NextCandidate(d)

\* Lines 264-274 with the bytes of the awaited fetch, and on to the next
\* await or to the return.
DiscoverResume(d, data) ==
    LET url == d.candidates[d.i]
        parsed == ParseSitemapXml(data)
    IN  IF Falsy(data) THEN NextCandidate(d)
        ELSE IF parsed[1] # <<>>
        THEN [d EXCEPT !.entry_points = @ \o <<url>> \o parsed[1], !.at = "return"]
        ELSE IF parsed[2] # <<>>
        THEN [d EXCEPT !.entry_points = @ \o <<url>>, !.at = "return"]
        ELSE NextCandidate(d)

\* DiscoverResult without the dict.fromkeys of line 276.
DiscoverResultRaw(d) == d.entry_points

\* Line 276: the value returned.
DiscoverResult(d) == DictFromKeys(d.entry_points)

----------------------------------------------------------------------------
(* call_1hping_in_batches *)

Min(a, b) == IF a <= b THEN a ELSE b

\* _chunk: lst[i:i + size] for i in range(0, len(lst), size), i counted from 0.
RECURSIVE ChunkFrom(_, _, _)
ChunkFrom(lst, size, i) ==
    IF i >= Len(lst) THEN <<>>
    ELSE <<SubSeq(lst, i + 1, Min(i + size, Len(lst)))>>
         \o ChunkFrom(lst, size, i + size)

\* range(0, n, size) is empty for a negative size; size 0 raises (BatchStart).
Chunk(lst, size) == IF size < 1 THEN <<>> ELSE ChunkFrom(lst, size, 0)

\* f"{campaign_name}__part{idx}": a name is a tuple, the base name alone or
\* the base name followed by the suffix and the index.
PartName(campaign_name, idx) == campaign_name \o <<"__part", idx>>

\* PartName counting the parts from 0.
BatchNameFromZero(b) ==
    IF Len(b.parts) = 1 THEN b.campaign_name
    ELSE PartName(b.campaign_name, b.idx - 1)

\* Line 137: the name batch idx is submitted under.
BatchName(b) ==
    IF Len(b.parts) = 1 THEN b.campaign_name
    ELSE PartName(b.campaign_name, b.idx)

\* The JSON body of call_1hping_create_campaign for batch idx (lines 111-115).
Payload(b) ==
    [CampaignName |-> BatchName(b), NumberOfDay |-> b.number_of_day,
     Urls |-> b.parts[b.idx]]

\* What a POST comes to: an exception out of session.post or resp.text (a
\* transport failure or a timeout), or a status with a body that is JSON or,
\* failing that, wrapped as {"raw": text}.
PostFailure == [err |-> TRUE, status |-> 0, data |-> "none"]
PostAnswer(status, data) == [err |-> FALSE, status |-> status, data |-> data]
PostOutcomes == {PostFailure, PostAnswer(200, "json"), PostAnswer(500, "raw")}
Is2xx(status) == 200 <= status /\ status < 300

\* Lines 132-135 and on to the first await (line 138).
BatchStart(campaign_name, number_of_day, urls, batch_size) ==
    LET b == [campaign_name |-> campaign_name, number_of_day |-> number_of_day,
              urls |-> urls, batch_size |-> batch_size,
              parts |-> <<>>, idx |-> 0, results |-> <<>>, at |-> "return"]
    IN  IF urls = <<>> THEN b
        ELSE IF batch_size = 0 THEN [b EXCEPT !.at = "raise"]
        ELSE LET parts == Chunk(urls, batch_size)
             IN  IF parts = <<>> THEN b
                 ELSE [b EXCEPT !.parts = parts, !.idx = 1, !.at = "post"]

\* Lines 138-140 with the outcome of the awaited POST: an exception leaves
\* the function, an answer is appended and the loop goes on.
BatchResume(b, outcome) ==
    IF outcome.err THEN [b EXCEPT !.at = "raise"]
    ELSE LET b1 == [b EXCEPT !.results = Append(@,
                        <<BatchName(b), [status |-> outcome.status,
                                         data |-> outcome.data]>>)]
         IN  IF b.idx = Len(b.parts) THEN [b1 EXCEPT !.at = "return"]
             ELSE [b1 EXCEPT !.idx = b.idx + 1]

\* One POST of call_1hping_create_campaign, as the log keeps it.
Posted(payload, outcome) == [payload |-> payload, outcome |-> outcome]

----------------------------------------------------------------------------
(* The web *)

\* The answer to a GET: a URL nothing is known about does not resolve.
Respond(url) == IF url \in DOMAIN server THEN server[url] ELSE TransportError

\* One GET of _fetch_bytes, as the log keeps it.
Got(url, data, level) == [url |-> url, data |-> data, level |-> level]

Path(name, n) == <<name, n>>

\* What asyncio.gather has given: nothing yet, the list of the tasks' results,
\* or the exception of a task.
NoResults == [state |-> "pending", reports |-> <<>>]

\* Line 508: the day count of a command that names none.
DefaultDays == 1

\* No update is being handled; context.user_data is empty.
NoUpdate == [handler |-> "none", args |-> <<>>]
NoUserData == [awaiting_days |-> FALSE, urls |-> <<>>]

\* The sitemaps and pages of the crawled graphs.
CrawlHost == <<"h">>
SitemapIds == {1, 2, 3}
PageIds == {1, 2}
Sm(i) == Url("https", CrawlHost, Path("s", i))
Pg(i) == Url("https", CrawlHost, Path("p", i))
SitemapRefs == {Sm(i) : i \in SitemapIds}
PageUrls == {Pg(i) : i \in PageIds}

\* The documents of at most two elements over these sitemaps and pages.
CrawlEls == {SitemapEl(r) : r \in SitemapRefs} \cup {UrlEl(u) : u \in PageUrls}
CrawlDocs == {<<>>} \cup {<<a>> : a \in CrawlEls}
                   \cup {<<a, b>> : a \in CrawlEls, b \in CrawlEls}
CrawlResponses ==
    {Http(200, Doc(e)) : e \in CrawlDocs}
    \cup {Http(404, BadXml), Http(200, BadXml), TransportError}

EntryLists == {<<Sm(1)>>, <<Sm(1), Sm(2)>>}

\* The largest limit_depth a crawl is started with.
MaxLimitDepth == 2

----------------------------------------------------------------------------
(* One call of _collect_urls_from_sitemaps *)

Idle == [t \in {1} |-> [at |-> "none"]]

InitCrawl ==
    /\ server \in [SitemapRefs -> CrawlResponses]
    /\ connector_closed = FALSE
    /\ sem = 0
    /\ domains = <<>>
    /\ \E entry \in EntryLists, limit \in 1..MaxLimitDepth :
          crawl = [t \in {1} |-> CrawlStart(entry, limit)]
    /\ pc = [t \in {1} |-> IF crawl[t].at = "return" THEN "done" ELSE "collect"]
    /\ disc = Idle
    /\ sub = Idle
    /\ report = Idle
    /\ gets = [t \in {1} |-> <<>>]
    /\ posts = [t \in {1} |-> <<>>]
    /\ results = NoResults
    /\ update = NoUpdate
    /\ days = DefaultDays
    /\ user_data = NoUserData
    /\ replies = <<>>

\* The crawl of task t is suspended at the fetch of line 237.
CanCollect(t) ==
    /\ pc[t] = "collect"
    /\ crawl[t].at = "fetch"
    /\ crawl[t].i \in 1..Len(crawl[t].queue)

\* The fetch awaited at line 237 completes and the crawl runs on to its next
\* fetch or to its return.
Collect(t) ==
    /\ CanCollect(t)
    /\ LET c == crawl[t]
           url == c.queue[c.i]
           data == FetchBytes(connector_closed, url, Respond(url))
           c2 == CrawlResume(c, data)
       IN  /\ gets' = [gets EXCEPT ![t] = Append(@, Got(url, data, c.depth))]
           /\ crawl' = [crawl EXCEPT ![t] = c2]
           /\ pc' = [pc EXCEPT ![t] = IF c2.at = "return" THEN "done" ELSE "collect"]
    /\ UNCHANGED <<update, days, user_data, replies>>
    /\ UNCHANGED <<server, connector_closed, sem, domains, disc, sub, report,
                   posts, results>>

NextCrawl == \E t \in DOMAIN pc : Collect(t)

SpecCrawl == InitCrawl /\ [][NextCrawl]_vars

----------------------------------------------------------------------------
(* One call of call_1hping_in_batches *)

\* The longest URL sequence and the largest batch size of a submission.
MaxUrls == 5
MaxBatch == 3

\* BATCH_SIZE when the environment does not set it.
DefaultBatchSize == 2000

BaseName == <<"base">>

InitBatch ==
    /\ server = <<>>
    /\ connector_closed = FALSE
    /\ sem = 0
    /\ domains = <<>>
    /\ \/ \E n \in 0..MaxUrls, size \in 0..MaxBatch :
             sub = [t \in {1} |->
                      BatchStart(BaseName, DefaultDays, [k \in 1..n |-> Pg(k)], size)]
       \/ sub = [t \in {1} |->
                   BatchStart(BaseName, DefaultDays, [k \in 1..4500 |-> Pg(k)],
                              DefaultBatchSize)]
    /\ pc = [t \in {1} |-> IF sub[t].at = "post" THEN "post" ELSE "done"]
    /\ disc = Idle
    /\ crawl = Idle
    /\ report = Idle
    /\ gets = [t \in {1} |-> <<>>]
    /\ posts = [t \in {1} |-> <<>>]
    /\ results = NoResults
    /\ update = NoUpdate
    /\ days = DefaultDays
    /\ user_data = NoUserData
    /\ replies = <<>>

\* The POST awaited at line 138 completes and the loop runs on to the next
\* POST, to the return or out of the function with the exception.
Post(t) ==
    /\ pc[t] = "post"
    /\ \E outcome \in PostOutcomes :
         LET b2 == BatchResume(sub[t], outcome)
         IN  /\ posts' = [posts EXCEPT ![t] = Append(@, Posted(Payload(sub[t]), outcome))]
             /\ sub' = [sub EXCEPT ![t] = b2]
             /\ pc' = [pc EXCEPT ![t] = IF b2.at = "post" THEN "post" ELSE "done"]
    /\ UNCHANGED <<update, days, user_data, replies>>
    /\ UNCHANGED <<server, connector_closed, sem, domains, disc, crawl, report,
                   gets, results>>

NextBatch == \E t \in DOMAIN pc : Post(t)

SpecBatch == InitBatch /\ [][NextBatch]_vars

----------------------------------------------------------------------------
(* One call of _discover_sitemap_entry_points *)

DiscHosts == {<<"g">>, <<"www.", "g">>}

\* What a candidate may answer: 404, a transport failure, a 2xx status other
\* than 200, no bytes, bytes that are not XML, a document without entries,
\* entries without loc text, a urlset, an index (listing a child twice and
\* itself), a document of both kinds.
AnswerKinds == {"404", "error", "204", "empty", "bad", "noentries", "blank",
                "urlset", "index", "both"}
Answer(u, kind) ==
    LET child == Url(u[1], u[2], Path("s", 1))
        page == Url(u[1], u[2], Path("p", 1))
    IN  CASE kind = "error" -> TransportError
          [] kind = "204" -> Http(204, Doc(<<UrlEl(page)>>))
          [] kind = "empty" -> Http(200, EmptyBytes)
          [] kind = "bad" -> Http(200, BadXml)
          [] kind = "noentries" -> Http(200, Doc(<<>>))
          [] kind = "blank" -> Http(200, Doc(<<UrlEl(BlankLoc), SitemapEl(BlankLoc)>>))
          [] kind = "urlset" -> Http(200, Doc(<<UrlEl(page)>>))
          [] kind = "index" ->
                Http(200, Doc(<<SitemapEl(child), SitemapEl(u), SitemapEl(child)>>))
          [] kind = "both" -> Http(200, Doc(<<UrlEl(page), SitemapEl(child)>>))
          [] OTHER -> Http(404, BadXml)

\* The webs in which at most two candidates of host h answer other than 404.
DiscWebs(h) ==
    LET cands == CandidateSitemapUrls(h)
    IN  {[u \in Range(cands) |->
            IF u = cands[j] THEN Answer(u, kj)
            ELSE IF u = cands[k] THEN Answer(u, kk)
            ELSE Answer(u, "404")] :
         <<j, k, kj, kk>> \in {q \in (1..Len(cands)) \X (1..Len(cands))
                                      \X AnswerKinds \X AnswerKinds : q[1] < q[2]}}

InitDiscover ==
    /\ \E h \in DiscHosts :
          /\ server \in DiscWebs(h)
          /\ disc = [t \in {1} |-> DiscoverStart(h)]
    /\ connector_closed = FALSE
    /\ sem = 0
    /\ domains = <<>>
    /\ pc = [t \in {1} |-> "probe"]
    /\ crawl = Idle
    /\ sub = Idle
    /\ report = Idle
    /\ gets = [t \in {1} |-> <<>>]
    /\ posts = [t \in {1} |-> <<>>]
    /\ results = NoResults
    /\ update = NoUpdate
    /\ days = DefaultDays
    /\ user_data = NoUserData
    /\ replies = <<>>

\* The fetch awaited at line 263 completes and the probing runs on to the
\* next candidate or to the return.
Probe(t) ==
    /\ pc[t] = "probe"
    /\ LET d == disc[t]
           url == d.candidates[d.i]
           data == FetchBytes(connector_closed, url, Respond(url))
           d2 == DiscoverResume(d, data)
       IN  /\ gets' = [gets EXCEPT ![t] = Append(@, Got(url, data, 0))]
           /\ disc' = [disc EXCEPT ![t] = d2]
           /\ pc' = [pc EXCEPT ![t] = IF d2.at = "return" THEN "done" ELSE "probe"]
    /\ UNCHANGED <<update, days, user_data, replies>>
    /\ UNCHANGED <<server, connector_closed, sem, domains, crawl, sub, report,
                   posts, results>>

NextDiscover == \E t \in DOMAIN pc : Probe(t)

SpecDiscover == InitDiscover /\ [][NextDiscover]_vars

----------------------------------------------------------------------------
(* One call of _fetch_bytes *)

\* The statuses, bodies and URLs of the calls: statuses around the 2xx range,
\* a body of each kind plain and gzipped, a URL of each ending.
StatusCodes == {199, 200, 201, 204, 206, 299, 300, 301, 404, 500}
FetchBodies ==
    {EmptyBytes, BadXml, Doc(<<UrlEl(Pg(1))>>), Gzip(Doc(<<UrlEl(Pg(1))>>)),
     Gzip(EmptyBytes)}
FetchUrls ==
    {Url("https", CrawlHost, Path(name, 0)) :
        name \in {"/sitemap.xml"} \cup GzNames}
FetchResponses ==
    {TransportError}
    \cup {HttpCt(st, b, ct) : st \in StatusCodes, b \in FetchBodies, ct \in BOOLEAN}

InitFetch ==
    /\ \E u \in FetchUrls, r \in FetchResponses : server = [x \in {u} |-> r]
    /\ connector_closed \in BOOLEAN
    /\ sem = 0
    /\ domains = <<>>
    /\ pc = [t \in {1} |-> "fetch"]
    /\ disc = Idle
    /\ crawl = Idle
    /\ sub = Idle
    /\ report = Idle
    /\ gets = [t \in {1} |-> <<>>]
    /\ posts = [t \in {1} |-> <<>>]
    /\ results = NoResults
    /\ update = NoUpdate
    /\ days = DefaultDays
    /\ user_data = NoUserData
    /\ replies = <<>>

\* The call runs from the request to its return.
Fetch(t) ==
    /\ pc[t] = "fetch"
    /\ \E url \in DOMAIN server :
         /\ gets' = [gets EXCEPT ![t] = Append(@,
                Got(url, FetchBytes(connector_closed, url, Respond(url)), 0))]
         /\ pc' = [pc EXCEPT ![t] = "done"]
    /\ UNCHANGED <<update, days, user_data, replies>>
    /\ UNCHANGED <<server, connector_closed, sem, domains, disc, crawl, sub,
                   report, posts, results>>

NextFetch == \E t \in DOMAIN pc : Fetch(t)

SpecFetch == InitFetch /\ [][NextFetch]_vars

----------------------------------------------------------------------------
(* /indexdomains: one _process_domain task per domain, under the semaphore *)

\* asyncio.Semaphore(3), the limit_depth passed at line 549, and the
\* BATCH_SIZE the environment sets for the runs modelled.
SemaphoreCap == 3
LimitDepth == 6
ConfiguredBatchSize == 2

\* Line 538.
NewReport(domain, h) ==
    [domain |-> domain, host |-> h, urls_count |-> 0, campaigns |-> <<>>,
     error |-> "None"]

\* Line 564: sanitize_campaign_name(f"{display_name}_{user_id}_{host}").
CampaignBase(h) == <<"User_1_", h>>

\* The locals of task t, and whether its step leaves the session of line 544.
TaskState(t) ==
    [pc |-> pc[t], disc |-> disc[t], crawl |-> crawl[t], sub |-> sub[t],
     report |-> report[t], closes |-> FALSE]

Failed(ts, error) ==
    [ts EXCEPT !.pc = "done", !.report = [@ EXCEPT !.error = error]]

\* Lines 569-580: the submission raised, or returned its results.
AfterBatch(ts) ==
    IF ts.sub.at = "post" THEN [ts EXCEPT !.pc = "submit"]
    ELSE IF ts.sub.at = "raise" THEN Failed(ts, "Loi goi API 1hping")
    ELSE [ts EXCEPT !.pc = "done",
                    !.report = [@ EXCEPT !.campaigns =
                        [k \in 1..Len(ts.sub.results) |->
                            [name |-> ts.sub.results[k][1],
                             status |-> ts.sub.results[k][2].status,
                             data_preview |-> ts.sub.results[k][2].data]]]]

\* Lines 549-568: the crawl returned; the session of line 544 is left, which
\* closes the connector it was given.
AfterCrawl(ts) ==
    LET deduped == DictFromKeys(ts.crawl.ordered_urls)
        ts1 == [ts EXCEPT !.closes = TRUE,
                          !.report = [@ EXCEPT !.urls_count = Len(deduped)]]
    IN  IF deduped = <<>>
        THEN Failed(ts1, "Khong thu thap duoc URL tu sitemap")
        ELSE AfterBatch([ts1 EXCEPT !.sub =
                 BatchStart(CampaignBase(ts.report.host), days, deduped,
                            ConfiguredBatchSize)])

\* Lines 545-549: the discovery returned.
AfterDiscover(ts) ==
    LET entry_points == DiscoverResult(ts.disc)
        c == CrawlStart(entry_points, LimitDepth)
    IN  IF entry_points = <<>>
        THEN Failed([ts EXCEPT !.closes = TRUE], "Khong tim thay sitemap hop le")
        ELSE IF c.at = "return" THEN AfterCrawl([ts EXCEPT !.crawl = c])
        ELSE [ts EXCEPT !.crawl = c, !.pc = "crawl"]

\* Store releasing the semaphore only when the pipeline completed.
StoreReleaseOnSuccess(t, ts) ==
    /\ pc' = [pc EXCEPT ![t] = ts.pc]
    /\ disc' = [disc EXCEPT ![t] = ts.disc]
    /\ crawl' = [crawl EXCEPT ![t] = ts.crawl]
    /\ sub' = [sub EXCEPT ![t] = ts.sub]
    /\ report' = [report EXCEPT ![t] = ts.report]
    /\ connector_closed' = (connector_closed \/ ts.closes)
    /\ sem' = IF ts.pc = "done" /\ ts.report.error = "None" THEN sem + 1 ELSE sem

\* The step of task t ends in ts: its locals are kept, the connector is closed
\* if the step left the session, the semaphore is released if the task is over.
Store(t, ts) ==
    /\ pc' = [pc EXCEPT ![t] = ts.pc]
    /\ disc' = [disc EXCEPT ![t] = ts.disc]
    /\ crawl' = [crawl EXCEPT ![t] = ts.crawl]
    /\ sub' = [sub EXCEPT ![t] = ts.sub]
    /\ report' = [report EXCEPT ![t] = ts.report]
    /\ connector_closed' = (connector_closed \/ ts.closes)
    /\ sem' = IF ts.pc = "done" THEN sem + 1 ELSE sem

\* The sites: n has no sitemap, g a urlset of three pages at its second
\* candidate, i an index of two urlsets at its first; www.g does not exist.
SiteUrl(h, name, k) == Url("https", <<h>>, Path(name, k))
Web ==
    (Url("https", <<"g">>, SitemapIndexXml) :> Http(404, BadXml))
    @@ (Url("https", <<"g">>, SitemapXml) :>
            Http(200, Doc(<<UrlEl(SiteUrl("g", "p", 1)), UrlEl(SiteUrl("g", "p", 2)),
                            UrlEl(SiteUrl("g", "p", 3))>>)))
    @@ (Url("https", <<"i">>, SitemapIndexXml) :>
            Http(200, Doc(<<SitemapEl(SiteUrl("i", "s", 1)),
                            SitemapEl(SiteUrl("i", "s", 2))>>)))
    @@ (SiteUrl("i", "s", 1) :> Http(200, Doc(<<UrlEl(SiteUrl("i", "p", 1))>>)))
    @@ (SiteUrl("i", "s", 2) :>
            Http(200, Doc(<<UrlEl(SiteUrl("i", "p", 1)), UrlEl(SiteUrl("i", "p", 2))>>)))

\* The domain tokens of a command: three hosts, a www. host, a token urlparse
\* rejects and a token without a host.
RawDomains ==
    {<<"n">>, <<"g">>, <<"HTTP://", "I", ":", "8", "/", "x">>, <<"www.", "g">>,
     <<"[", "x">>, <<":", "8">>}

\* The most domains of a command.
MaxDomains == 2

DomainLists ==
    UNION {{ds \in [1..n -> RawDomains] : NoDup(ds)} : n \in 1..MaxDomains}

InitDomains ==
    /\ server = Web
    /\ connector_closed = FALSE
    /\ sem = SemaphoreCap
    /\ domains \in DomainLists
    /\ pc = [t \in DOMAIN domains |-> "waiting"]
    /\ disc = [t \in DOMAIN domains |-> [at |-> "none"]]
    /\ crawl = [t \in DOMAIN domains |-> [at |-> "none"]]
    /\ sub = [t \in DOMAIN domains |-> [at |-> "none"]]
    /\ report = [t \in DOMAIN domains |-> [at |-> "none"]]
    /\ gets = [t \in DOMAIN domains |-> <<>>]
    /\ posts = [t \in DOMAIN domains |-> <<>>]
    /\ results = NoResults
    /\ update = NoUpdate
    /\ days = DefaultDays
    /\ user_data = NoUserData
    /\ replies = <<>>

\* A semaphore that lets every task in.
HasRoomAlways == TRUE

\* Line 536: `async with sem` goes on when the semaphore has a slot left.
HasRoom == sem > 0

\* Lines 536-545: the task enters the semaphore and runs to its first fetch;
\* the ValueError of _norm_domain and the return for an invalid host leave
\* the semaphore at once.
Admit(t) ==
    /\ pc[t] = "waiting"
    /\ \A u \in 1..(t - 1) : pc[u] # "waiting"
    /\ HasRoom
    /\ LET n == NormDomain(domains[t])
       IN  IF n.raised
           THEN /\ pc' = [pc EXCEPT ![t] = "raised"]
                /\ UNCHANGED <<disc, report, sem>>
           ELSE IF n.host = <<>>
           THEN /\ pc' = [pc EXCEPT ![t] = "done"]
                /\ report' = [report EXCEPT ![t] =
                       [NewReport(domains[t], n.host) EXCEPT
                           !.error = "Domain khong hop le"]]
                /\ UNCHANGED <<disc, sem>>
           ELSE /\ pc' = [pc EXCEPT ![t] = "probe"]
                /\ report' = [report EXCEPT ![t] = NewReport(domains[t], n.host)]
                /\ disc' = [disc EXCEPT ![t] = DiscoverStart(n.host)]
                /\ sem' = sem - 1
    /\ UNCHANGED <<update, days, user_data, replies>>
    /\ UNCHANGED <<server, connector_closed, domains, crawl, sub, gets, posts,
                   results>>

\* gather starts the tasks in order and each runs to its first request, so
\* the tasks the semaphore has room for are in before any request completes.
Started == \A u \in DOMAIN pc : u <= SemaphoreCap => pc[u] # "waiting"

\* The fetch awaited at line 263 completes in a task; a request that has not
\* completed when the connector is closed fails, as does one made after.
PipeProbe(t) ==
    /\ pc[t] = "probe"
    /\ Started
    /\ LET d == disc[t]
           url == d.candidates[d.i]
           data == FetchBytes(connector_closed, url, Respond(url))
           d2 == DiscoverResume(d, data)
           ts == [TaskState(t) EXCEPT !.disc = d2]
       IN  /\ gets' = [gets EXCEPT ![t] = Append(@, Got(url, data, 0))]
           /\ Store(t, IF d2.at = "return" THEN AfterDiscover(ts) ELSE ts)
    /\ UNCHANGED <<update, days, user_data, replies>>
    /\ UNCHANGED <<server, domains, posts, results>>

\* The fetch awaited at line 237 completes in a task.
PipeCrawl(t) ==
    /\ pc[t] = "crawl"
    /\ Started
    /\ LET c == crawl[t]
           url == c.queue[c.i]
           data == FetchBytes(connector_closed, url, Respond(url))
           c2 == CrawlResume(c, data)
           ts == [TaskState(t) EXCEPT !.crawl = c2]
       IN  /\ gets' = [gets EXCEPT ![t] = Append(@, Got(url, data, c.depth))]
           /\ Store(t, IF c2.at = "return" THEN AfterCrawl(ts) ELSE ts)
    /\ UNCHANGED <<update, days, user_data, replies>>
    /\ UNCHANGED <<server, domains, posts, results>>

\* The POST awaited at line 138 completes in a task.
PipePost(t) ==
    /\ pc[t] = "submit"
    /\ Started
    /\ \E outcome \in PostOutcomes :
         LET ts == [TaskState(t) EXCEPT !.sub = BatchResume(sub[t], outcome)]
         IN  /\ posts' = [posts EXCEPT ![t] =
                    Append(@, Posted(Payload(sub[t]), outcome))]
             /\ Store(t, AfterBatch(ts))
    /\ UNCHANGED <<update, days, user_data, replies>>
    /\ UNCHANGED <<server, domains, gets, results>>

\* Lines 583-608: gather returns the results of all the tasks in task order
\* and the handler sends the summary.
GatherReturn ==
    /\ results.state = "pending"
    /\ \A t \in DOMAIN pc : pc[t] = "done"
    /\ results' = [state |-> "returned",
                   reports |-> [t \in DOMAIN pc |-> <<domains[t], report[t]>>]]
    /\ replies' = Append(replies, "Ket qua")
    /\ UNCHANGED <<update, days, user_data>>
    /\ UNCHANGED <<server, connector_closed, sem, domains, pc, disc, crawl, sub,
                   report, gets, posts>>

\* Line 583 with return_exceptions=False: the exception of a task is raised
\* out of gather and of indexdomains; the other tasks run on.
GatherRaise ==
    /\ results.state = "pending"
    /\ \E t \in DOMAIN pc : pc[t] = "raised"
    /\ results' = [state |-> "raised", reports |-> <<>>]
    /\ UNCHANGED <<update, days, user_data, replies>>
    /\ UNCHANGED <<server, connector_closed, sem, domains, pc, disc, crawl, sub,
                   report, gets, posts>>

NextDomains ==
    \/ \E t \in DOMAIN pc : Admit(t)
    \/ \E t \in DOMAIN pc : PipeProbe(t)
    \/ \E t \in DOMAIN pc : PipeCrawl(t)
    \/ \E t \in DOMAIN pc : PipePost(t)
    \/ GatherReturn
    \/ GatherRaise

SpecDomains == InitDomains /\ [][NextDomains]_vars

\* Commands of more domains than the semaphore has slots: the first or the
\* last MaxQueued tokens of a list of six.
MaxQueued == 4
QueuePool ==
    <<<<"www.", "g">>, <<"g">>, <<"HTTP://", "I", ":", "8", "/", "x">>, <<"n">>,
      <<":", "8">>, <<"[", "x">>>>
QueueLists ==
    {SubSeq(QueuePool, 1, k) : k \in 1..Min(MaxQueued, Len(QueuePool))}
    \cup {SubSeq(QueuePool, Len(QueuePool) - k + 1, Len(QueuePool)) :
             k \in 1..Min(MaxQueued, Len(QueuePool))}

InitLimiter ==
    /\ server = Web
    /\ connector_closed = FALSE
    /\ sem = SemaphoreCap
    /\ domains \in QueueLists
    /\ pc = [t \in DOMAIN domains |-> "waiting"]
    /\ disc = [t \in DOMAIN domains |-> [at |-> "none"]]
    /\ crawl = [t \in DOMAIN domains |-> [at |-> "none"]]
    /\ sub = [t \in DOMAIN domains |-> [at |-> "none"]]
    /\ report = [t \in DOMAIN domains |-> [at |-> "none"]]
    /\ gets = [t \in DOMAIN domains |-> <<>>]
    /\ posts = [t \in DOMAIN domains |-> <<>>]
    /\ results = NoResults
    /\ update = NoUpdate
    /\ days = DefaultDays
    /\ user_data = NoUserData
    /\ replies = <<>>

SpecLimiter == InitLimiter /\ [][NextDomains]_vars

\* The guards of the disjuncts of NextDomains: a task can be let in or
\* resumed, or the handler awaiting gather can.
CanStep ==
    \/ \E t \in DOMAIN pc :
         /\ pc[t] = "waiting"
         /\ \A u \in 1..(t - 1) : pc[u] # "waiting"
         /\ HasRoom
    \/ \E t \in DOMAIN pc : pc[t] \in {"probe", "crawl", "submit"} /\ Started
    \/ /\ results.state = "pending"
       /\ \/ \A t \in DOMAIN pc : pc[t] = "done"
          \/ \E t \in DOMAIN pc : pc[t] = "raised"

\* The event loop runs whatever can go on, and every HTTP request returns or
\* fails in finite time.  This is WF_vars(NextDomains) written out, with
\* CanStep for ENABLED <<NextDomains>>_vars.
FairLoop == []<>(~CanStep) \/ []<><<NextDomains>>_vars

SpecLimiterFair == InitLimiter /\ [][NextDomains]_vars /\ FairLoop

----------------------------------------------------------------------------
(* The handlers: /indexdomains, /indexweb and the text that answers the     *)
(* question about the days.  A token is a sequence of characters.           *)

Digits == {"0", "1", "2", "3", "4", "5", "6", "7", "8", "9"}
DigitValue(c) ==
    CASE c = "0" -> 0 [] c = "1" -> 1 [] c = "2" -> 2 [] c = "3" -> 3
      [] c = "4" -> 4 [] c = "5" -> 5 [] c = "6" -> 6 [] c = "7" -> 7
      [] c = "8" -> 8 [] OTHER -> 9

IsDigits(tok) == tok # <<>> /\ \A k \in 1..Len(tok) : tok[k] \in Digits

\* re.fullmatch(r"\d{1,most}", tok)
FullMatchDigits(tok, most) == IsDigits(tok) /\ Len(tok) <= most

\* int(tok) for a token of digits.
RECURSIVE IntOf(_)
IntOf(tok) ==
    IF tok = <<>> THEN 0
    ELSE 10 * IntOf(SubSeq(tok, 1, Len(tok) - 1)) + DigitValue(tok[Len(tok)])

\* re.split(r"[,\n\r]+", t): the pieces between the separators.
Separators == {",", "\n", "\r"}
RECURSIVE SplitPieces(_, _)
SplitPieces(tok, piece) ==
    IF tok = <<>> THEN <<piece>>
    ELSE IF Head(tok) \in Separators
    THEN <<piece>> \o SplitPieces(Tail(tok), <<>>)
    ELSE SplitPieces(Tail(tok), Append(piece, Head(tok)))

\* _parse_domains_raw without the second loop: every piece is kept.
ParseDomainsRawKeepAll(raw_tokens) ==
    LET pieces == Concat([k \in 1..Len(raw_tokens) |->
                            SplitPieces(raw_tokens[k], <<>>)])
        stripped == [k \in 1..Len(pieces) |-> Strip(pieces[k])]
    IN  SelectSeq(stripped, LAMBDA q : q # <<>>)

\* _parse_domains_raw: the stripped non-empty pieces of the tokens, each once,
\* in order.
ParseDomainsRaw(raw_tokens) ==
    LET pieces == Concat([k \in 1..Len(raw_tokens) |->
                            SplitPieces(raw_tokens[k], <<>>)])
        stripped == [k \in 1..Len(pieces) |-> Strip(pieces[k])]
    IN  DictFromKeys(SelectSeq(stripped, LAMBDA q : q # <<>>))

\* An update has arrived and its handler has not run; what a handler leaves
\* in results when it returns early, replies at its end, or raises.
Received == [state |-> "received", reports |-> <<>>]
Rejected == [state |-> "rejected", reports |-> <<>>]
Replied == [state |-> "replied", reports |-> <<>>]
Running == [state |-> "running", reports |-> <<>>]
Raised == [state |-> "raised", reports |-> <<>>]

\* The handler answers and returns before it has started any task.
Reject(msg) ==
    /\ replies' = Append(replies, msg)
    /\ results' = Rejected
    /\ UNCHANGED <<server, connector_closed, sem, domains, pc, disc, crawl, sub,
                   report, gets, posts, update, user_data>>

\* The tasks of a handler, none of them started.
StartTasks(n, stage) ==
    /\ pc' = [t \in 1..n |-> stage]
    /\ crawl' = [t \in 1..n |-> [at |-> "none"]]
    /\ report' = [t \in 1..n |-> [at |-> "none"]]
    /\ gets' = [t \in 1..n |-> <<>>]
    /\ posts' = [t \in 1..n |-> <<>>]

\* indexdomains, lines 497-583: the arguments are checked, the day count and
\* the domains are read, and one task per domain is created.
IndexDomains ==
    /\ update.handler = "indexdomains"
    /\ results = Received
    /\ LET args == update.args
           has_days == args # <<>> /\ FullMatchDigits(Head(args), 4)
           d == IF has_days THEN IntOf(Head(args)) ELSE DefaultDays
           tokens == IF has_days THEN Tail(args) ELSE args
           parsed == ParseDomainsRaw(tokens)
       IN  /\ days' = d
           /\ IF args = <<>> THEN Reject("Cu phap: /indexdomains")
              ELSE IF d <= 0 THEN Reject("So ngay phai >= 1")
              ELSE IF d > 365 THEN Reject("Gioi han toi da 365 ngay")
              ELSE IF parsed = <<>> THEN Reject("Khong co domain hop le")
              ELSE /\ replies' = Append(replies, "Nhan domain")
                   /\ domains' = parsed
                   /\ sem' = SemaphoreCap
                   /\ connector_closed' = FALSE
                   /\ StartTasks(Len(parsed), "waiting")
                   /\ disc' = [t \in 1..Len(parsed) |-> [at |-> "none"]]
                   /\ sub' = [t \in 1..Len(parsed) |-> [at |-> "none"]]
                   /\ results' = NoResults
                   /\ UNCHANGED <<server, update, user_data>>

\* indexweb, lines 427-451: the domain is normalised and the discovery runs
\* to its first fetch; the ValueError of _norm_domain leaves the handler.
IndexWeb ==
    /\ update.handler = "indexweb"
    /\ results = Received
    /\ LET args == update.args
           n == NormDomain(args[1])
       IN  IF args = <<>> THEN Reject("Cu phap: /indexweb") /\ UNCHANGED days
           ELSE IF n.raised
           THEN /\ results' = Raised
                /\ UNCHANGED <<server, connector_closed, sem, domains, pc, disc,
                               crawl, sub, report, gets, posts, update, days,
                               user_data, replies>>
           ELSE IF n.host = <<>>
           THEN Reject("Domain khong hop le") /\ UNCHANGED days
           ELSE /\ replies' = Append(replies, "Dang do sitemap")
                /\ StartTasks(1, "webprobe")
                /\ disc' = [t \in {1} |-> DiscoverStart(n.host)]
                /\ sub' = [t \in {1} |-> [at |-> "none"]]
                /\ connector_closed' = FALSE
                /\ results' = Running
                /\ UNCHANGED <<server, sem, domains, update, days, user_data>>

\* indexweb, lines 452-470, once the crawl has returned.
WebAfterCrawl(c) ==
    LET deduped == DictFromKeys(c.ordered_urls)
    IN  IF c.ordered_urls = <<>>
        THEN /\ replies' = Append(replies, "Khong thu thap duoc URL nao tu sitemap")
             /\ UNCHANGED user_data
        ELSE /\ replies' = Append(replies, "Da thu thap URL")
             /\ user_data' = [awaiting_days |-> TRUE, urls |-> deduped]

\* indexweb: the fetch awaited at line 263 completes.
WebProbe(t) ==
    /\ pc[t] = "webprobe"
    /\ LET d == disc[t]
           url == d.candidates[d.i]
           data == FetchBytes(connector_closed, url, Respond(url))
           d2 == DiscoverResume(d, data)
           c == CrawlStart(DiscoverResult(d2), LimitDepth)
       IN  /\ gets' = [gets EXCEPT ![t] = Append(@, Got(url, data, 0))]
           /\ disc' = [disc EXCEPT ![t] = d2]
           /\ IF d2.at = "fetch"
              THEN UNCHANGED <<pc, crawl, results, replies, user_data>>
              ELSE IF DiscoverResult(d2) = <<>>
              THEN /\ replies' = Append(replies, "Khong tim thay sitemap hop le")
                   /\ pc' = [pc EXCEPT ![t] = "done"]
                   /\ results' = Replied
                   /\ UNCHANGED <<crawl, user_data>>
              ELSE /\ crawl' = [crawl EXCEPT ![t] = c]
                   /\ IF c.at = "return"
                      THEN /\ WebAfterCrawl(c)
                           /\ pc' = [pc EXCEPT ![t] = "done"]
                           /\ results' = Replied
                      ELSE /\ pc' = [pc EXCEPT ![t] = "webcrawl"]
                           /\ UNCHANGED <<results, replies, user_data>>
    /\ UNCHANGED <<server, connector_closed, sem, domains, sub, report, posts,
                   update, days>>

\* indexweb: the fetch awaited at line 237 completes.
WebCrawl(t) ==
    /\ pc[t] = "webcrawl"
    /\ LET c == crawl[t]
           url == c.queue[c.i]
           data == FetchBytes(connector_closed, url, Respond(url))
           c2 == CrawlResume(c, data)
       IN  /\ gets' = [gets EXCEPT ![t] = Append(@, Got(url, data, c.depth))]
           /\ crawl' = [crawl EXCEPT ![t] = c2]
           /\ IF c2.at = "return"
              THEN /\ WebAfterCrawl(c2)
                   /\ pc' = [pc EXCEPT ![t] = "done"]
                   /\ results' = Replied
              ELSE UNCHANGED <<pc, results, replies, user_data>>
    /\ UNCHANGED <<server, connector_closed, sem, domains, disc, sub, report,
                   posts, update, days>>

\* Line 378: sanitize_campaign_name(f"{display_name}_{user_id}").
TextCampaignName == <<"User_1">>

\* handle_text, lines 392-420, once the submission has raised or returned.
TextAfterBatch(b) ==
    /\ replies' = Append(replies, IF b.at = "raise" THEN "Loi goi API 1hping"
                                  ELSE "Ket qua tao campaign")
    /\ user_data' = NoUserData
    /\ results' = Replied

\* handle_text, lines 348-393: the text is checked as a day count and the
\* submission of the URLs of the session runs to its first POST.
HandleText ==
    /\ update.handler = "text"
    /\ results = Received
    /\ LET raw == Strip(update.args[1])
           d == IntOf(raw)
           urls == user_data.urls
           b == BatchStart(TextCampaignName, d, urls, ConfiguredBatchSize)
       IN  IF ~user_data.awaiting_days
           THEN Reject("Gui file Excel (.xlsx) de bat dau") /\ UNCHANGED days
           ELSE IF ~FullMatchDigits(raw, 3)
           THEN Reject("Vui long nhap so nguyen hop le") /\ UNCHANGED days
           ELSE IF d <= 0 THEN Reject("So ngay phai >= 1") /\ days' = d
           ELSE IF d > 365 THEN Reject("Gioi han toi da 365 ngay") /\ days' = d
           ELSE IF urls = <<>>
           THEN /\ days' = d
                /\ replies' = Append(replies, "Khong tim thay danh sach URL")
                /\ user_data' = NoUserData
                /\ results' = Replied
                /\ UNCHANGED <<server, connector_closed, sem, domains, pc, disc,
                               crawl, sub, report, gets, posts, update>>
           ELSE /\ days' = d
                /\ StartTasks(1, IF b.at = "post" THEN "textpost" ELSE "done")
                /\ disc' = [t \in {1} |-> [at |-> "none"]]
                /\ sub' = [t \in {1} |-> b]
                /\ IF b.at = "post"
                   THEN /\ replies' = Append(replies, "Dang tao chien dich")
                        /\ results' = Running
                        /\ UNCHANGED user_data
                   ELSE /\ replies' = replies \o <<"Dang tao chien dich",
                                IF b.at = "raise" THEN "Loi goi API 1hping"
                                ELSE "Ket qua tao campaign">>
                        /\ user_data' = NoUserData
                        /\ results' = Replied
                /\ UNCHANGED <<server, connector_closed, sem, domains, update>>

\* handle_text: the POST awaited at line 138 completes.
TextPost(t) ==
    /\ pc[t] = "textpost"
    /\ \E outcome \in PostOutcomes :
         LET b2 == BatchResume(sub[t], outcome)
         IN  /\ posts' = [posts EXCEPT ![t] =
                    Append(@, Posted(Payload(sub[t]), outcome))]
             /\ sub' = [sub EXCEPT ![t] = b2]
             /\ IF b2.at = "post"
                THEN UNCHANGED <<pc, replies, user_data, results>>
                ELSE /\ TextAfterBatch(b2)
                     /\ pc' = [pc EXCEPT ![t] = "done"]
    /\ UNCHANGED <<server, connector_closed, sem, domains, disc, crawl, report,
                   gets, update, days>>

\* The tokens of the updates: day counts in and out of range, of one to five
\* digits, a signed one, one between blanks; domains, one of them two domains
\* around a comma.
DayTokens ==
    {<<"0">>, <<"7">>, <<"3", "6", "5">>, <<"3", "6", "6">>,
     <<"9", "9", "9", "9">>, <<"1", "0", "0", "0", "0">>}
TextTokens ==
    DayTokens \cup {<<" ", "7", " ">>, <<"-", "5">>, <<"g">>, <<"9", "9", "9">>}
CommandDomains ==
    {<<>>, <<<<"g">>>>, <<<<":", "8">>>>, <<<<"[", "x">>>>,
     <<<<"g">>, <<":", "8">>>>, <<<<"g", ",", "g", ",", "n">>>>,
     <<<<"i", ",", "g">>, <<"i">>, <<"n">>>>}
WebArgs ==
    {<<>>, <<<<"g">>>>, <<<<":", "8">>>>, <<<<"[", "x">>>>, <<<<"n">>>>,
     <<<<"HTTP://", "I", ":", "8", "/", "x">>>>}
SessionUrls == <<SiteUrl("g", "p", 1), SiteUrl("g", "p", 2), SiteUrl("g", "p", 3)>>

Updates ==
    {[handler |-> "indexdomains", args |-> day \o ds] :
        day \in {<<>>} \cup {<<tok>> : tok \in DayTokens}, ds \in CommandDomains}
    \cup {[handler |-> "indexweb", args |-> a] : a \in WebArgs}
    \cup {[handler |-> "text", args |-> <<tok>>] : tok \in TextTokens}

InitCommand ==
    /\ server = Web
    /\ connector_closed = FALSE
    /\ sem = SemaphoreCap
    /\ domains = <<>>
    /\ pc = <<>>
    /\ disc = <<>>
    /\ crawl = <<>>
    /\ sub = <<>>
    /\ report = <<>>
    /\ gets = <<>>
    /\ posts = <<>>
    /\ results = Received
    /\ update \in Updates
    /\ days = DefaultDays
    /\ user_data \in {NoUserData, [awaiting_days |-> TRUE, urls |-> SessionUrls]}
    /\ replies = <<>>

NextCommand ==
    \/ IndexDomains
    \/ IndexWeb
    \/ HandleText
    \/ \E t \in DOMAIN pc : WebProbe(t)
    \/ \E t \in DOMAIN pc : WebCrawl(t)
    \/ \E t \in DOMAIN pc : TextPost(t)
    \/ NextDomains

SpecCommand == InitCommand /\ [][NextCommand]_vars

----------------------------------------------------------------------------
(* The sitemap graph the server describes, for the claims about the crawl *)

\* What a sitemap reference holds when it is fetched alone.
Served(u) == FetchBytes(FALSE, u, Respond(u))
KidsOf(u) == Range(ParseSitemapXml(Served(u))[1])
PagesOf(u) == Range(ParseSitemapXml(Served(u))[2])

\* The references at most n child links away from the set E.
RECURSIVE Within(_, _)
Within(E, n) ==
    IF n = 0 THEN E
    ELSE LET R == Within(E, n - 1) IN R \cup UNION {KidsOf(u) : u \in R}

Reachable(E) == Within(E, Cardinality(DOMAIN server))
ReachablePages(E) == UNION {PagesOf(u) : u \in Reachable(E)}

\* Every reference of the graph lies at depth d or less, the entry points
\* being at depth 0.
DepthAtMost(E, d) == d >= 0 /\ Reachable(E) = Within(E, d)

AllFetchesSucceed(E) == \A u \in Reachable(E) : ~Falsy(Served(u))

\* The page URLs of the documents fetched so far, in fetch order.
PagesGot(t) ==
    Concat([k \in 1..Len(gets[t]) |-> ParseSitemapXml(gets[t][k].data)[2]])

\* The first occurrences of a sequence, in order.
RECURSIVE FirstSeenFrom(_, _)
FirstSeenFrom(s, k) ==
    IF k > Len(s) THEN <<>>
    ELSE (IF \A j \in 1..(k - 1) : s[j] # s[k] THEN <<s[k]>> ELSE <<>>)
         \o FirstSeenFrom(s, k + 1)

Returned(t) == crawl[t].at = "return"
EntrySet(t) == Range(crawl[t].entry_urls)

\* C1 as stated: when every reference of the graph lies at depth limit_depth
\* or less and every fetch succeeds, the returned sequence holds exactly the
\* reachable page URLs, each once.
C1_DepthAtMostLimit ==
    \A t \in DOMAIN crawl :
        (Returned(t) /\ AllFetchesSucceed(EntrySet(t))
            /\ DepthAtMost(EntrySet(t), crawl[t].limit_depth))
        => (Range(crawl[t].ordered_urls) = ReachablePages(EntrySet(t))
            /\ NoDup(crawl[t].ordered_urls))

\* C1 amended: when every reference of the graph lies at depth
\* limit_depth - 1 or less (the graph has at most limit_depth levels) and
\* every fetch succeeds, the returned sequence holds exactly the reachable
\* page URLs, each once, however many parents reference a child.
C1_DepthBelowLimit ==
    \A t \in DOMAIN crawl :
        (Returned(t) /\ AllFetchesSucceed(EntrySet(t))
            /\ DepthAtMost(EntrySet(t), crawl[t].limit_depth - 1))
        => (Range(crawl[t].ordered_urls) = ReachablePages(EntrySet(t))
            /\ NoDup(crawl[t].ordered_urls))

\* A crawl returned from a graph of two levels in which the entry point lists
\* the same child twice and the child holds a page the entry point lacks.
C1_Witness ==
    \E t \in DOMAIN crawl :
        /\ Returned(t) /\ AllFetchesSucceed(EntrySet(t))
        /\ crawl[t].entry_urls = <<Sm(1)>>
        /\ crawl[t].limit_depth = 2
        /\ DepthAtMost(EntrySet(t), 1) /\ ~DepthAtMost(EntrySet(t), 0)
        /\ Served(Sm(1)) = Doc(<<SitemapEl(Sm(2)), SitemapEl(Sm(2))>>)
        /\ PagesOf(Sm(2)) # {}
        /\ Range(crawl[t].ordered_urls) = ReachablePages(EntrySet(t))

\* C2: a crawl never runs a level at depth limit_depth or beyond, fetches no
\* reference twice (so it ends within as many fetches as there are
\* references), awaits a fetch whenever it has not returned, and
\* holds at every moment, the return included, the page URLs of every
\* document fetched so far.
C2_BoundedAndPartial ==
    \A t \in DOMAIN crawl :
        /\ crawl[t].depth <= crawl[t].limit_depth
        /\ \A k \in 1..Len(gets[t]) : gets[t][k].level < crawl[t].limit_depth
        /\ \A j, k \in 1..Len(gets[t]) :
              j < k => (gets[t][j].level <= gets[t][k].level
                        /\ gets[t][j].url # gets[t][k].url)
        /\ Range(crawl[t].ordered_urls) = Range(PagesGot(t))
        /\ (Returned(t) \/ CanCollect(t))

\* A crawl of a self-referential chain returned at the depth bound with the
\* pages of the levels it ran, an unvisited reference left in its queue.
C2_Witness ==
    \E t \in DOMAIN crawl :
        /\ Returned(t)
        /\ crawl[t].depth = crawl[t].limit_depth
        /\ \E u \in Range(crawl[t].queue) : u \notin crawl[t].seen_sitemaps
        /\ Sm(1) \in KidsOf(Sm(1))
        /\ crawl[t].ordered_urls # <<>>
        /\ Len(gets[t]) = 2

\* C3: at every point of a crawl the accumulated sequence has no URL twice
\* and lists the page URLs of the fetched documents in first-seen order.
C3_FirstSeenOrder ==
    \A t \in DOMAIN crawl :
        /\ NoDup(crawl[t].ordered_urls)
        /\ crawl[t].ordered_urls = FirstSeenFrom(PagesGot(t), 1)

\* Two documents fetched, <<p2>> then <<p1, p2>>, the second repeating the
\* URL of the first: the sequence keeps the order of the first sighting.
C3_Witness ==
    \E t \in DOMAIN crawl :
        /\ Len(gets[t]) = 2
        /\ ParseSitemapXml(gets[t][1].data)[2] = <<Pg(2)>>
        /\ ParseSitemapXml(gets[t][2].data)[2] = <<Pg(1), Pg(2)>>
        /\ crawl[t].ordered_urls = <<Pg(2), Pg(1)>>

\* The references a crawl has fetched, and the one it is fetching.
Fetched(t) == {gets[t][k].url : k \in 1..Len(gets[t])}
InFlight(t) ==
    IF crawl[t].at = "fetch" THEN {crawl[t].queue[crawl[t].i]} ELSE {}

\* C18: a crawl fetches no reference twice; the reference it is fetching was
\* put in the visited set before the fetch and was not fetched before; the
\* visited set is the references fetched and the one being fetched; every
\* reference of the level dequeued so far is visited.
C18_FetchedAtMostOnce ==
    \A t \in DOMAIN crawl :
        /\ \A j, k \in 1..Len(gets[t]) : j # k => gets[t][j].url # gets[t][k].url
        /\ InFlight(t) \subseteq crawl[t].seen_sitemaps
        /\ InFlight(t) \cap Fetched(t) = {}
        /\ crawl[t].seen_sitemaps = Fetched(t) \cup InFlight(t)
        /\ crawl[t].at = "fetch"
             => \A j \in 1..crawl[t].i : crawl[t].queue[j] \in crawl[t].seen_sitemaps

\* The entry points are s1 and s2 and s1 lists s2 twice: s2 is fetched once,
\* as an entry point, and its two occurrences in the next level are skipped.
C18_Witness ==
    \E t \in DOMAIN crawl :
        /\ Returned(t)
        /\ crawl[t].entry_urls = <<Sm(1), Sm(2)>>
        /\ crawl[t].limit_depth = 2 /\ crawl[t].depth = 2
        /\ Served(Sm(1)) = Doc(<<SitemapEl(Sm(2)), SitemapEl(Sm(2))>>)
        /\ ~Falsy(Served(Sm(2)))
        /\ [k \in 1..Len(gets[t]) |-> gets[t][k].url] = <<Sm(1), Sm(2)>>

\* The children found while level d - 1 was processed that were not visited
\* when their parent was parsed, in the order found.
LevelQueue(t, d) ==
    Concat([k \in 1..Len(gets[t]) |->
        IF gets[t][k].level = d - 1
        THEN SelectSeq(ParseSitemapXml(gets[t][k].data)[1],
                       LAMBDA u : u \notin {gets[t][j].url : j \in 1..k})
        ELSE <<>>])

\* The queue of level d: the entry points for level 0.
QueueOfLevel(t, d) == IF d = 0 THEN crawl[t].entry_urls ELSE LevelQueue(t, d)

\* C19: the fetches of a crawl go level by level; the reference being fetched
\* belongs to the current level, whose queue is exactly the children found
\* while the level before was processed; by then every reference of every
\* earlier level has been fetched and its document parsed; the queue of the
\* next level holds the children found so far in the current level only.
C19_LevelBarrier ==
    \A t \in DOMAIN crawl :
        LET c == crawl[t]
        IN  /\ \A j, k \in 1..Len(gets[t]) :
                  j < k => gets[t][j].level <= gets[t][k].level
            /\ \A k \in 1..Len(gets[t]) : gets[t][k].level <= c.depth
            /\ c.queue = QueueOfLevel(t, c.depth)
            /\ \A d \in 0..(c.depth - 1) :
                  /\ Range(QueueOfLevel(t, d)) \subseteq Fetched(t)
                  /\ \A u \in Range(QueueOfLevel(t, d)) :
                        \E k \in 1..Len(gets[t]) :
                            gets[t][k].url = u /\ gets[t][k].level <= d
            /\ c.at = "fetch" => c.next_queue = LevelQueue(t, c.depth + 1)
            /\ \A k \in 1..Len(gets[t]) :
                  gets[t][k].url \in Range(QueueOfLevel(t, gets[t][k].level))

\* Both entry points have been fetched, each listing a child, and the crawl
\* is fetching the first child of level 1, the queue of that level being the
\* two children.
C19_Witness ==
    \E t \in DOMAIN crawl :
        /\ crawl[t].at = "fetch"
        /\ crawl[t].entry_urls = <<Sm(1), Sm(2)>>
        /\ crawl[t].depth = 1
        /\ [k \in 1..Len(gets[t]) |-> gets[t][k].url] = <<Sm(1), Sm(2)>>
        /\ Served(Sm(1)) = Doc(<<SitemapEl(Sm(3)), UrlEl(Pg(1))>>)
        /\ Served(Sm(2)) = Doc(<<SitemapEl(Sm(3)), SitemapEl(Sm(1))>>)
        /\ crawl[t].queue = <<Sm(3), Sm(3)>>
        /\ crawl[t].i = 1

\* The fetch gave nothing to parse: no data, or bytes that are not XML.
NodeFailed(data) == Falsy(data) \/ data.xml # "ok"

\* C20: a node whose fetch failed or whose bytes are not XML gives no page
\* and no child; the sequence holds the pages of every document fetched all
\* the same; the crawl goes on to the next reference until it returns, and
\* it returns having fetched every reference within limit_depth levels of
\* the entry points through the nodes that did not fail, with their pages.
C20_FailedNodeSkipped ==
    \A t \in DOMAIN crawl :
        /\ \A k \in 1..Len(gets[t]) :
              NodeFailed(gets[t][k].data)
              => ParseSitemapXml(gets[t][k].data) = <<<<>>, <<>>>>
        /\ Range(crawl[t].ordered_urls)
              = UNION {Range(ParseSitemapXml(gets[t][k].data)[2]) :
                         k \in {j \in 1..Len(gets[t]) : ~NodeFailed(gets[t][j].data)}}
        /\ (Returned(t) \/ CanCollect(t))
        /\ Returned(t)
             => LET all == Within(EntrySet(t), crawl[t].limit_depth - 1)
                IN  /\ Fetched(t) = all
                    /\ Range(crawl[t].ordered_urls) = UNION {PagesOf(u) : u \in all}

\* The first entry point is not found; the second lists a page and a child,
\* which lists another page: the crawl returned both pages.
C20_Witness ==
    \E t \in DOMAIN crawl :
        /\ Returned(t)
        /\ crawl[t].entry_urls = <<Sm(1), Sm(2)>>
        /\ server[Sm(1)] = Http(404, BadXml)
        /\ Served(Sm(2)) = Doc(<<SitemapEl(Sm(3)), UrlEl(Pg(1))>>)
        /\ Served(Sm(3)) = Doc(<<UrlEl(Pg(2))>>)
        /\ [k \in 1..Len(gets[t]) |-> gets[t][k].url] = <<Sm(1), Sm(2), Sm(3)>>
        /\ NodeFailed(gets[t][1].data)
        /\ crawl[t].ordered_urls = <<Pg(1), Pg(2)>>

\* s is t followed by the elements of more.
ExtendedBy(s, t, more) == s = t \o more

\* What a step of the crawl of task t appended to the queue of the next
\* level, given the children of the document it parsed: the new tail of
\* next_queue while the level goes on, the new tail of the queue when the
\* step went on to the next level.
AppendedOk(t, seen) ==
    LET c == crawl[t]
        c2 == crawl'[t]
        children == ParseSitemapXml(gets'[t][Len(gets'[t])].data)[1]
        fresh == SelectSeq(children, LAMBDA u : u \notin seen)
    IN  IF c2.depth = c.depth
        THEN /\ Len(c2.next_queue) >= Len(c.next_queue)
             /\ SubSeq(c2.next_queue, 1, Len(c.next_queue)) = c.next_queue
             /\ \A k \in (Len(c.next_queue) + 1)..Len(c2.next_queue) :
                   c2.next_queue[k] \notin seen
             /\ ExtendedBy(c2.next_queue, c.next_queue, fresh)
        ELSE IF c2.depth = c.depth + 1
        THEN /\ Len(c2.queue) >= Len(c.next_queue)
             /\ SubSeq(c2.queue, 1, Len(c.next_queue)) = c.next_queue
             /\ \A k \in (Len(c.next_queue) + 1)..Len(c2.queue) :
                   c2.queue[k] \notin seen
             /\ ExtendedBy(c2.queue, c.next_queue, fresh)
        ELSE \* the whole next level was visited already: nothing was appended
             /\ fresh = <<>>
             /\ Range(c.next_queue) \subseteq c2.seen_sitemaps

\* C21: every reference a step of a crawl appends to the queue of the next
\* level is outside the visited set at that moment, and the children of the
\* parsed document that are in the visited set are not appended.
C21_NeverReenqueued ==
    [][\A t \in DOMAIN crawl :
          crawl'[t] # crawl[t] => AppendedOk(t, crawl[t].seen_sitemaps)]_vars

\* The first entry point lists itself and the second entry point: once it is
\* parsed only the second, not visited yet, is in the queue of the next level.
C21_Witness ==
    \E t \in DOMAIN crawl :
        /\ crawl[t].at = "fetch"
        /\ crawl[t].entry_urls = <<Sm(1), Sm(2)>>
        /\ crawl[t].depth = 0 /\ crawl[t].i = 2
        /\ Len(gets[t]) = 1
        /\ gets[t][1].data = Doc(<<SitemapEl(Sm(1)), SitemapEl(Sm(2))>>)
        /\ crawl[t].seen_sitemaps = {Sm(1), Sm(2)}
        /\ crawl[t].next_queue = <<Sm(2)>>

----------------------------------------------------------------------------
(* The claims about the batched submission *)

\* The call has ended: it returned or an exception left it.
Ended(t) == sub[t].at \in {"return", "raise"}

\* The URL lists of the POSTs issued so far, in submission order.
Submitted(t) == [k \in 1..Len(posts[t]) |-> posts[t][k].payload.Urls]

\* C6: once a call has ended, one POST has been issued for every batch of
\* the partition, whatever the outcome of the POSTs before it.
C6_EveryBatchAttempted ==
    \A t \in DOMAIN sub :
        (Ended(t) /\ sub[t].batch_size >= 1)
        => Len(posts[t]) = Len(Chunk(sub[t].urls, sub[t].batch_size))

\* C7: once a call has ended, the batches it submitted are slices of at most
\* batch_size URLs, all but the last of exactly batch_size, and put end to
\* end in submission order they give the input sequence.
C7_SubmittedBatchesPartition ==
    \A t \in DOMAIN sub :
        (Ended(t) /\ sub[t].batch_size >= 1)
        => /\ Concat(Submitted(t)) = sub[t].urls
           /\ \A k \in 1..Len(posts[t]) :
                 /\ Len(Submitted(t)[k]) <= sub[t].batch_size
                 /\ k < Len(posts[t]) => Len(Submitted(t)[k]) = sub[t].batch_size

\* What does hold of C7: the batches submitted so far are the first slices
\* of the partition, which covers the input sequence.
SubmittedArePrefixOfPartition ==
    \A t \in DOMAIN sub :
        sub[t].at \in {"post", "return", "raise"} /\ sub[t].batch_size >= 1
        => LET n == Len(sub[t].urls)
               size == sub[t].batch_size
               k == Len(sub[t].parts)
           IN  /\ Concat(sub[t].parts) = sub[t].urls
               /\ k = (n + size - 1) \div size
               /\ \A j \in 1..k :
                     sub[t].parts[j] =
                         SubSeq(sub[t].urls, (j - 1) * size + 1, Min(j * size, n))
               /\ Len(posts[t]) <= k
               /\ \A j \in 1..Len(posts[t]) : Submitted(t)[j] = sub[t].parts[j]

\* C8: when the sequence splits into more than one batch, the i-th POST of a
\* call carries the i-th slice under the base name followed by "__part" and
\* i, never under the bare base name.
C8_PartNames ==
    \A t \in DOMAIN sub :
        (sub[t].at \in {"post", "return", "raise"}
            /\ Len(sub[t].urls) > sub[t].batch_size /\ sub[t].batch_size >= 1)
        => \A i \in 1..Len(posts[t]) :
              /\ posts[t][i].payload.CampaignName
                    = sub[t].campaign_name \o <<"__part", i>>
              /\ posts[t][i].payload.CampaignName # sub[t].campaign_name
              /\ posts[t][i].payload.Urls
                    = SubSeq(sub[t].urls, (i - 1) * sub[t].batch_size + 1,
                             Min(i * sub[t].batch_size, Len(sub[t].urls)))

\* 4500 URLs at batch size 2000: three POSTs of 2000, 2000 and 500 URLs
\* named base__part1, base__part2, base__part3.
C8_Witness ==
    \E t \in DOMAIN sub :
        /\ sub[t].at = "return"
        /\ Len(sub[t].urls) = 4500 /\ sub[t].batch_size = 2000
        /\ [k \in 1..Len(posts[t]) |-> Len(posts[t][k].payload.Urls)]
             = <<2000, 2000, 500>>
        /\ [k \in 1..Len(posts[t]) |-> posts[t][k].payload.CampaignName]
             = <<BaseName \o <<"__part", 1>>, BaseName \o <<"__part", 2>>,
                 BaseName \o <<"__part", 3>>>>

\* C9 (for a sequence that is not empty): a sequence no longer than the
\* batch size ends with exactly one POST, under the bare base name, and
\* exactly one result entry.
C9_OneBatchOneResult ==
    \A t \in DOMAIN sub :
        (Ended(t) /\ sub[t].urls # <<>>
            /\ Len(sub[t].urls) <= sub[t].batch_size)
        => /\ Len(posts[t]) = 1
           /\ posts[t][1].payload.CampaignName = sub[t].campaign_name
           /\ Len(sub[t].results) = 1

\* C17: a call that has ended has returned one outcome per batch of the
\* partition, in batch order: the name submitted, with the status and body of
\* the answer, or without a status when the POST met a transport failure;
\* the outcome of every POST issued is among them.
C17_OneOutcomePerBatch ==
    \A t \in DOMAIN sub :
        (Ended(t) /\ sub[t].batch_size >= 1)
        => /\ sub[t].at = "return"
           /\ Len(sub[t].results) = Len(Chunk(sub[t].urls, sub[t].batch_size))
           /\ Len(posts[t]) = Len(sub[t].results)
           /\ \A k \in 1..Len(posts[t]) :
                 /\ sub[t].results[k][1] = posts[t][k].payload.CampaignName
                 /\ posts[t][k].outcome.err
                      => "status" \notin DOMAIN sub[t].results[k][2]
                 /\ ~posts[t][k].outcome.err
                      => sub[t].results[k][2]
                            = [status |-> posts[t][k].outcome.status,
                               data |-> posts[t][k].outcome.data]

\* What does hold of C17: the results kept so far are the outcomes of the
\* answered POSTs, in order, under the names submitted; a call ends by
\* raising exactly when its last POST met a transport failure.
AnsweredOutcomesKept ==
    \A t \in DOMAIN sub :
        (sub[t].at \in {"post", "return", "raise"} /\ sub[t].batch_size >= 1)
        => /\ \A k \in 1..Len(sub[t].results) :
                 /\ ~posts[t][k].outcome.err
                 /\ sub[t].results[k]
                       = <<posts[t][k].payload.CampaignName,
                           [status |-> posts[t][k].outcome.status,
                            data |-> posts[t][k].outcome.data]>>
           /\ sub[t].at = "raise"
                <=> (posts[t] # <<>> /\ posts[t][Len(posts[t])].outcome.err)
           /\ Len(sub[t].results)
                = Len(posts[t]) - (IF sub[t].at = "raise" THEN 1 ELSE 0)

----------------------------------------------------------------------------
(* The claims about the discovery *)

\* A candidate is viable when its bytes parse to a child sitemap or a page.
Viable(data) ==
    /\ ~Falsy(data)
    /\ (ParseSitemapXml(data)[1] # <<>> \/ ParseSitemapXml(data)[2] # <<>>)

\* The order the candidates are to be probed in: the host then, unless the
\* host starts with "www." already, its www. variant.
ProbeOrder(h) ==
    LET four(x) == <<<<"https", x, SitemapIndexXml>>, <<"https", x, SitemapXml>>,
                     <<"http", x, SitemapIndexXml>>, <<"http", x, SitemapXml>>>>
    IN  IF h[1] = "www." THEN four(h) ELSE four(h) \o four(<<"www.">> \o h)

\* C10: the GETs of a discovery are the candidates in the generated order,
\* one each; every candidate fetched before the last GET was not viable;
\* the discovery goes on while no candidate has been viable and candidates
\* remain, and returns at the first viable one, which heads its result, or
\* with nothing after the last candidate.
C10_ProbeOrder ==
    \A t \in DOMAIN disc :
        disc[t].at \in {"fetch", "return"}
        => LET order == ProbeOrder(disc[t].host)
               n == Len(gets[t])
           IN  /\ n <= Len(order)
               /\ \A k \in 1..n : gets[t][k].url = order[k]
               /\ \A k \in 1..(n - 1) : ~Viable(gets[t][k].data)
               /\ disc[t].at = "fetch"
                    => (n < Len(order) /\ (n > 0 => ~Viable(gets[t][n].data)))
               /\ disc[t].at = "return"
                    => \/ /\ Viable(gets[t][n].data)
                          /\ Head(DiscoverResult(disc[t])) = order[n]
                       \/ /\ n = Len(order)
                          /\ ~Viable(gets[t][n].data)
                          /\ DiscoverResult(disc[t]) = <<>>

\* https://g/sitemap_index.xml fails, https://g/sitemap.xml is a urlset, a
\* later candidate is viable too: two GETs, the result is the second
\* candidate alone.
C10_Witness ==
    \E t \in DOMAIN disc :
        /\ disc[t].at = "return"
        /\ disc[t].host = <<"g">>
        /\ Len(gets[t]) = 2
        /\ gets[t][1].data = NoData
        /\ server[<<"https", <<"g">>, SitemapXml>>]
             = Http(200, Doc(<<UrlEl(<<"https", <<"g">>, Path("p", 1)>>)>>))
        /\ \E k \in 3..8 : Viable(Served(disc[t].candidates[k]))
        /\ DiscoverResult(disc[t]) = <<<<"https", <<"g">>, SitemapXml>>>>

\* C11: a discovery returns the first viable candidate followed by the
\* child references that candidate lists, each once and in the order of its
\* first listing, when it lists a child; that candidate alone when it lists
\* pages only; and nothing when no candidate was viable.
C11_EntryPoints ==
    \A t \in DOMAIN disc :
        disc[t].at = "return"
        => LET n == Len(gets[t])
               last == gets[t][n]
               kids == ParseSitemapXml(last.data)[1]
               res == DiscoverResult(disc[t])
           IN  /\ n >= 1
               /\ \A k \in 1..(n - 1) : ~Viable(gets[t][k].data)
               /\ NoDup(res)
               /\ (Viable(last.data) /\ kids # <<>>)
                    => (/\ res = FirstSeenFrom(<<last.url>> \o kids, 1)
                        /\ Range(res) = {last.url} \cup Range(kids))
               /\ (Viable(last.data) /\ kids = <<>>) => res = <<last.url>>
               /\ ~Viable(last.data)
                    => (n = Len(disc[t].candidates) /\ res = <<>>)

\* The first viable candidate is an index listing a child twice and itself
\* once: the result is the candidate then the child.
C11_Witness ==
    \E t \in DOMAIN disc :
        /\ disc[t].at = "return"
        /\ Len(gets[t]) >= 2
        /\ LET last == gets[t][Len(gets[t])]
               child == Url(last.url[1], last.url[2], Path("s", 1))
           IN  /\ ParseSitemapXml(last.data)[1] = <<child, last.url, child>>
               /\ DiscoverResult(disc[t]) = <<last.url, child>>

----------------------------------------------------------------------------
(* The claims about the multi-domain run *)

\* What a host comes to when its pipeline is the only one using the web.
RECURSIVE SoloDiscover(_)
SoloDiscover(d) ==
    IF d.at = "return" THEN DiscoverResult(d)
    ELSE SoloDiscover(DiscoverResume(d, Served(d.candidates[d.i])))

RECURSIVE SoloCrawl(_)
SoloCrawl(c) ==
    IF c.at # "fetch" THEN c.ordered_urls
    ELSE SoloCrawl(CrawlResume(c, Served(c.queue[c.i])))

HostOk(t) == ~NormDomain(domains[t]).raised /\ NormDomain(domains[t]).host # <<>>
SoloEntryPoints(t) == SoloDiscover(DiscoverStart(NormDomain(domains[t]).host))
SoloUrls(t) == SoloCrawl(CrawlStart(SoloEntryPoints(t), LimitDepth))

PostsSucceed(t) ==
    \A k \in 1..Len(posts[t]) :
        ~posts[t][k].outcome.err /\ Is2xx(posts[t][k].outcome.status)

\* C4: in a run with a domain whose discovery finds no sitemap, a domain whose
\* sitemap is discoverable and yields a page URL, and whose POSTs all
\* succeed, ends with a report without error that records its campaigns.
C4_SiblingCompletes ==
    \A a, b \in DOMAIN pc :
        (/\ a # b
         /\ pc[b] = "done"
         /\ HostOk(a) /\ SoloEntryPoints(a) = <<>>
         /\ HostOk(b) /\ SoloEntryPoints(b) # <<>> /\ SoloUrls(b) # <<>>
         /\ PostsSucceed(b))
        => (report[b].error = "None" /\ report[b].campaigns # <<>>)

\* C5: no pipeline ends by raising, so gather never raises and returns one
\* report per domain.
C5_EveryPipelineReports ==
    /\ \A t \in DOMAIN pc : pc[t] # "raised"
    /\ results.state # "raised"
    /\ results.state = "returned" => Len(results.reports) = Len(domains)

\* The GETs a task issued as probes of the discovery, and as fetches of the
\* crawl.
ProbesIssued(t) ==
    IF disc[t].at = "none" THEN 0
    ELSE IF disc[t].at = "return" THEN disc[t].i ELSE disc[t].i - 1
CrawlFetches(t) == Len(gets[t]) - ProbesIssued(t)

\* The reason a finished pipeline is to report: "None" when it completed.
ReasonOf(t) ==
    IF NormDomain(domains[t]).host = <<>> THEN "Domain khong hop le"
    ELSE IF DiscoverResult(disc[t]) = <<>> THEN "Khong tim thay sitemap hop le"
    ELSE IF crawl[t].ordered_urls = <<>> THEN "Khong thu thap duoc URL tu sitemap"
    ELSE IF sub[t].at = "raise" THEN "Loi goi API 1hping"
    ELSE "None"

\* The order of the stages, the guards of the crawl and of the submission,
\* and the report of a pipeline that returned.
StagesInOrder(t) ==
    /\ pc[t] = "waiting" => (disc[t].at = "none" /\ gets[t] = <<>>)
    /\ pc[t] = "probe" => (disc[t].at = "fetch" /\ crawl[t].at = "none")
    /\ crawl[t].at # "none"
         => (disc[t].at = "return" /\ DiscoverResult(disc[t]) # <<>>)
    /\ pc[t] = "crawl" => (crawl[t].at = "fetch" /\ sub[t].at = "none")
    /\ CrawlFetches(t) > 0 => crawl[t].at # "none"
    /\ sub[t].at # "none"
         => (crawl[t].at = "return" /\ crawl[t].ordered_urls # <<>>)
    /\ pc[t] = "submit" => sub[t].at = "post"
    /\ posts[t] # <<>> => sub[t].at # "none"
    /\ pc[t] = "done"
         => (/\ report[t].error = ReasonOf(t)
             /\ report[t].error = "None"
                  => (/\ sub[t].at = "return"
                      /\ Len(report[t].campaigns) = Len(sub[t].results)
                      /\ report[t].campaigns # <<>>))

\* C12: every pipeline goes through normalisation, discovery, crawl and
\* submission in that order; it fetches for the crawl only after a discovery
\* that returned entry points, POSTs only after a crawl that returned a URL;
\* it ends with a report, whose error names the stage that failed (invalid
\* host, no sitemap, no URL, submission raised) and is None otherwise, and
\* in no other way.
C12_PipelineStages ==
    \A t \in DOMAIN pc : StagesInOrder(t) /\ pc[t] # "raised"

\* The stages of C12 for the pipelines that did not raise.
StagesUnlessRaised ==
    \A t \in DOMAIN pc : pc[t] # "raised" => StagesInOrder(t)

\* The pipelines the semaphore has let in and that have not ended.
Active == {t \in DOMAIN pc : pc[t] \in {"probe", "crawl", "submit"}}

\* C13: at every moment at most 3 pipelines are past the semaphore and not
\* ended, the semaphore counts the slots left, and a pipeline still waiting
\* for the semaphore has no request in flight and has made no GET or POST.
C13_AtMostThreeActive ==
    /\ Cardinality(Active) <= 3
    /\ sem = 3 - Cardinality(Active)
    /\ \A t \in DOMAIN pc :
          pc[t] = "waiting"
          => (/\ disc[t].at = "none" /\ crawl[t].at = "none" /\ sub[t].at = "none"
              /\ gets[t] = <<>> /\ posts[t] = <<>>)

\* Four domains with valid hosts: the fourth is past the semaphore, one of
\* the first three has ended and three pipelines are active.
C13_Witness ==
    /\ Len(domains) = 4
    /\ \A t \in DOMAIN pc : HostOk(t)
    /\ pc[4] \in {"probe", "crawl", "submit"}
    /\ \E u \in 1..3 : pc[u] = "done"
    /\ Cardinality(Active) = 3

\* The submission of a pipeline run alone, answered as its POSTs were.
RECURSIVE SoloSubmit(_, _, _)
SoloSubmit(b, answers, k) ==
    IF b.at # "post" \/ k > Len(answers) THEN b
    ELSE SoloSubmit(BatchResume(b, answers[k].outcome), answers, k + 1)

\* The report of the domain of task t when its pipeline is the only one of
\* the run, the server answering as it does in the run.
SoloReport(t) ==
    LET h == NormDomain(domains[t]).host
        base == NewReport(domains[t], h)
        urls == DictFromKeys(SoloUrls(t))
        counted == [base EXCEPT !.urls_count = Len(urls)]
        b == SoloSubmit(BatchStart(CampaignBase(h), days, urls,
                                   ConfiguredBatchSize), posts[t], 1)
    IN  IF h = <<>> THEN [base EXCEPT !.error = "Domain khong hop le"]
        ELSE IF SoloEntryPoints(t) = <<>>
        THEN [base EXCEPT !.error = "Khong tim thay sitemap hop le"]
        ELSE IF urls = <<>>
        THEN [counted EXCEPT !.error = "Khong thu thap duoc URL tu sitemap"]
        ELSE AfterBatch([TaskState(t) EXCEPT !.sub = b, !.report = counted]).report

\* C14: in every interleaving, the report a pipeline ends with is the report
\* of its domain run alone against the same server responses.
C14_ReportAsAlone ==
    \A t \in DOMAIN pc : pc[t] = "done" => report[t] = SoloReport(t)

----------------------------------------------------------------------------
(* The claims about _fetch_bytes *)

\* The body of a response, decompressed when the URL ends in .gz or the
\* Content-Type mentions gzip and the body is a gzip stream.
BodyOf(url, resp) ==
    IF (url[3][1] \in {"/sitemap.xml.gz", "/SITEMAP.XML.GZ"} \/ resp.ct_gzip)
       /\ resp.body.xml = "gzip"
    THEN resp.body.entries[1]
    ELSE resp.body

\* The request got no response: the session was closed, the transport failed
\* or the request timed out.
NoResponse(resp) == connector_closed \/ resp.err

\* C15 as stated: a call returns the body, decompressed when gzip applies,
\* for every response of status 200..299 and no data for every other status
\* and for every transport failure or timeout.
C15_BodyForEvery2xx ==
    \A t \in DOMAIN pc :
        pc[t] = "done"
        => LET g == gets[t][1]
               resp == server[g.url]
               ok == ~NoResponse(resp) /\ resp.status \in 200..299
           IN  /\ ok => g.data = BodyOf(g.url, resp)
               /\ ~ok => g.data = NoData

\* C15 amended: a call returns the body, decompressed when gzip applies, for
\* every response of status 200, and no data for every other status, the
\* other 2xx statuses included, and for every transport failure or timeout;
\* it always returns.
C15_BodyFor200Only ==
    \A t \in DOMAIN pc :
        pc[t] = "done"
        => LET g == gets[t][1]
               resp == server[g.url]
               ok == ~NoResponse(resp) /\ resp.status = 200
           IN  /\ Len(gets[t]) = 1
               /\ ok => g.data = BodyOf(g.url, resp)
               /\ ~ok => g.data = NoData

\* A 200 answer to a URL ending in .gz whose body is the gzip stream of a
\* urlset: the call returned the urlset.
C15_Witness ==
    \E t \in DOMAIN pc :
        /\ pc[t] = "done"
        /\ ~connector_closed
        /\ EndsWithGz(gets[t][1].url)
        /\ server[gets[t][1].url] = HttpCt(200, Gzip(Doc(<<UrlEl(Pg(1))>>)), FALSE)
        /\ gets[t][1].data = Doc(<<UrlEl(Pg(1))>>)

----------------------------------------------------------------------------
(* The claims about the handlers *)

NoNetwork ==
    /\ \A t \in DOMAIN gets : gets[t] = <<>>
    /\ \A t \in DOMAIN posts : posts[t] = <<>>

\* The handler has not run, or it has answered and returned at once.
RejectionReported == results = Received \/ (results = Rejected /\ replies # <<>>)

\* The first token of the command is a number outside 1..365.
BadDayCommand(most) ==
    /\ update.handler = "indexdomains"
    /\ update.args # <<>>
    /\ IsDigits(Head(update.args)) /\ Len(Head(update.args)) <= most
    /\ IntOf(Head(update.args)) \notin 1..365

\* The text is not an integer of 1..365.
BadDayText ==
    /\ update.handler = "text"
    /\ LET raw == Strip(update.args[1])
       IN  ~(IsDigits(raw) /\ IntOf(raw) \in 1..365)

\* The domain normalises to the empty host.
EmptyHost(raw) == ~NormDomain(raw).raised /\ NormDomain(raw).host = <<>>

BadHostWeb ==
    /\ update.handler = "indexweb"
    /\ update.args # <<>>
    /\ EmptyHost(update.args[1])

\* A pipeline of /indexdomains whose domain has the empty host made no
\* request and, once run, reported the invalid domain.
BadHostsRejected ==
    \A t \in DOMAIN domains :
        EmptyHost(domains[t])
        => (/\ gets[t] = <<>> /\ posts[t] = <<>>
            /\ pc[t] # "waiting"
                 => (pc[t] = "done" /\ report[t].error = "Domain khong hop le"))

\* C16: a command or text whose day count is not an integer of 1..365, and
\* a domain whose host normalises to the empty value, are rejected with a
\* message and without any sitemap GET or campaign POST for them.
C16_RejectedBeforeNetwork ==
    /\ (BadDayCommand(5) \/ BadDayText \/ BadHostWeb)
         => (NoNetwork /\ RejectionReported)
    /\ BadHostsRejected

\* C16 for the day counts of /indexdomains of at most four digits.
RejectedUpToFourDigits ==
    /\ (BadDayCommand(4) \/ BadDayText \/ BadHostWeb)
         => (NoNetwork /\ RejectionReported)
    /\ BadHostsRejected

----------------------------------------------------------------------------
(* The claims about the end of a multi-domain run *)

\* Every task of the run has ended.
AllEnded == \A t \in DOMAIN pc : pc[t] \in {"done", "raised"}

\* C22: in a run of any number of domains, every pipeline is eventually
\* let in by the semaphore and ends, and every slot of the semaphore is
\* given back whatever way the pipelines ended.
C22_EveryPipelineEnds == <>[](AllEnded /\ sem = SemaphoreCap)

\* Four domains with valid hosts have all ended, the first and the last
\* without a sitemap, and the semaphore has its three slots back.
C22_Witness ==
    /\ Len(domains) = 4
    /\ \A t \in DOMAIN pc : HostOk(t) /\ pc[t] = "done"
    /\ report[1].error = "Khong tim thay sitemap hop le"
    /\ report[4].error = "Khong tim thay sitemap hop le"
    /\ \E t \in DOMAIN pc : report[t].error = "None"
    /\ sem = SemaphoreCap

\* The domain tokens of an /indexdomains command, the day count left out, cut
\* at the separators, in the order they were typed.
TypedDomains ==
    LET args == update.args
        toks == IF args # <<>> /\ FullMatchDigits(Head(args), 4)
                THEN Tail(args) ELSE args
        pieces == Concat([k \in 1..Len(toks) |-> SplitPieces(toks[k], <<>>)])
    IN  SelectSeq([k \in 1..Len(pieces) |-> Strip(pieces[k])],
                  LAMBDA q : q # <<>>)

\* The place where a domain was first typed.
FirstTyped(d) ==
    CHOOSE k \in 1..Len(TypedDomains) :
        TypedDomains[k] = d /\ \A j \in 1..(k - 1) : TypedDomains[j] # d

ReportsReturned == update.handler = "indexdomains" /\ results.state = "returned"

\* C23: the list of reports a multi-domain run produces has exactly one
\* report for each distinct domain typed, the report of that domain, and the
\* reports are in the order the domains were first typed, whatever the order
\* in which the pipelines were let in and ended.
C23_OneReportPerDomainInOrder ==
    ReportsReturned =>
        LET rs == results.reports
        IN  /\ {rs[k][1] : k \in DOMAIN rs} = Range(TypedDomains)
            /\ \A j, k \in DOMAIN rs : j # k => rs[j][1] # rs[k][1]
            /\ \A j, k \in DOMAIN rs :
                  j < k => FirstTyped(rs[j][1]) < FirstTyped(rs[k][1])
            /\ \A k \in DOMAIN rs : rs[k][2].domain = rs[k][1]

\* i,g i n was typed, i twice and n last: the three reports are returned as
\* i, g, n, that of i with its campaigns and that of n without a sitemap.
C23_Witness ==
    /\ ReportsReturned
    /\ TypedDomains = <<<<"i">>, <<"g">>, <<"i">>, <<"n">>>>
    /\ Len(results.reports) = 3
    /\ results.reports[1][1] = <<"i">>
    /\ results.reports[3][1] = <<"n">>
    /\ results.reports[1][2].error = "None"
    /\ results.reports[3][2].error = "Khong tim thay sitemap hop le"

====
